---------------------------- MODULE Spec2Model ----------------------------
(***************************************************************************)
(* Model of the p2p Supervisor (p2p/src/supervisor.rs): the main loop with *)
(* the Protocol state machine, the five worker subroutines (accept,        *)
(* connect, message, stop, upgrade), the two mutex-protected registries    *)
(* and the unbounded channels between them.                                *)
(*                                                                         *)
(* Threads and channels                                                    *)
(*   Every flume channel is a sequence named after its receiving end.      *)
(*   A thread that returned or panicked has pc = "dead"; its channel ends  *)
(*   are dropped with it, so a send to it fails and a recv from it fails   *)
(*   once the queue is drained.                                            *)
(* Locks                                                                   *)
(*   The peers mutex is held by main exactly while pc["main"] = "wait"     *)
(*   (the guard lives across selector.wait()); the connected mutex is held *)
(*   across steps only by the upgrade worker, while pc["upgrade"] =        *)
(*   "insert".  Every other critical section contains no blocking call and *)
(*   is one step.  A panic inside a critical section poisons the mutex.    *)
(* Selector                                                                *)
(*   flume::Selector::wait returns any one of the ready sources.  What the *)
(*   receiver of a running peer holds is the remote's doing and is seen by *)
(*   the selector only: it is chosen when the selector looks (MainWaitPeer)*)
(* Worker exit                                                             *)
(*   `recv()?` on a drained channel whose sender, main, is gone returns    *)
(*   the error.  Only main looks at whether a worker still exists, so the  *)
(*   step that leaves a worker idle on such a channel ends it.             *)
(***************************************************************************)
EXTENDS Integers, Sequences, FiniteSets, TLC

\* ------------------------------------------------------------------ bounds
\* total number of uses the caller makes of the handle: the commands it issues
\* and the final drop
MaxCmds == 3
\* total number of inbound messages the running peers receive
MaxRecv == 1

\* node ids of the remotes
Ids == {"A"}

Threads == {"main", "accept", "connect", "message", "stop", "upgrade"}
Workers == Threads \ {"main"}

\* absent map entry
None == "None"

\* what the remote named by a ConnectInfo does when dialed
ConnectInfos == [id : Ids, dial : {"ok", "refused"}]

VARIABLES
  command_rx,   \* caller -> main : Command
  event_rx,     \* main -> caller : Event (everything sent so far, in order)
  input_rx,     \* workers -> main : Input
  accept_rx,    \* main -> accept worker : ()
  connect_rx,   \* main -> connect worker : ConnectInfo
  msg_rx,       \* main -> message worker : (id, msg)
  stop_rx,      \* main -> stop worker : id
  upgrade_rx,   \* main -> upgrade worker : id
  connected,    \* connection registry: id -> direction of the held connection
  peers,        \* peer registry: id -> running peer
  protocol,     \* Protocol { connected, stopped, upgraded }
  pc,           \* position of every thread
  local,        \* the value a worker holds between two of its steps
  poisoned,     \* which mutexes are poisoned
  handle,       \* TRUE while the caller holds the Supervisor handle
  sent,         \* calls of peer.send, in order: [id, msg]
  closed,       \* number of Connection::close calls made by the accept worker
  hist          \* bookkeeping for the properties (counters and message stamps)

vars == <<command_rx, event_rx, input_rx, accept_rx, connect_rx, msg_rx, stop_rx,
          upgrade_rx, connected, peers, protocol, pc,
          local, poisoned, handle, sent, closed, hist>>

\* ------------------------------------------------------------ constructors
\* Command: one record shape per variant
Accept == [type |-> "Accept"]
Connect(info) == [type |-> "Connect", info |-> info]
\* (phase: what the caller knew of the peer when it issued the command)
Disconnect(id, phase) == [type |-> "Disconnect", id |-> id, phase |-> phase]
Msg(id, msg) == [type |-> "Msg", id |-> id, msg |-> msg]
Event(t, id, arg) == [kind |-> "Event", type |-> t, id |-> id, arg |-> arg]
Internal(t, id, arg) == [kind |-> "Internal", type |-> t, id |-> id, arg |-> arg]
Input(t, id, arg) == [type |-> t, id |-> id, arg |-> arg]

\* a peer returned by peer.run
NewPeer == "Running"

\* HashMap::remove and HashMap::insert on a map kept as a function on its keys
Remove(m, k) == [i \in DOMAIN m \ {k} |-> m[i]]
Insert(m, k, v) == [i \in DOMAIN m \cup {k} |-> IF i = k THEN v ELSE m[i]]
EmptyMap == [i \in {} |-> None]

Init ==
  /\ command_rx = <<>>
  /\ event_rx = <<>>
  /\ input_rx = <<>>
  /\ accept_rx = <<>>
  /\ connect_rx = <<>>
  /\ msg_rx = <<>>
  /\ stop_rx = <<>>
  /\ upgrade_rx = <<>>
  /\ connected = EmptyMap
  /\ peers = EmptyMap
  /\ protocol = [connected |-> EmptyMap, stopped |-> {}, upgraded |-> {}]
  /\ pc = [t \in Threads |-> IF t = "main" THEN "lock" ELSE "recv"]
  /\ local = [t \in Workers |-> None]
  /\ poisoned = [connected |-> FALSE, peers |-> FALSE]
  /\ handle = TRUE
  /\ sent = <<>>
  /\ closed = 0
  /\ hist = [cmds |-> 0, recvs |-> 0, accepts |-> 0, pulls |-> 0,
             late |-> {}, live |-> {}, gone |-> {}, errs |-> {}]

\* ------------------------------------------------------------ Protocol FSM
\* handle_accepted with its two outputs in the other order
handle_accepted_upgrade_first(p, id) ==
  [p   |-> [p EXCEPT !.connected = Insert(@, id, "Incoming")],
   out |-> <<Internal("Upgrade", id, None), Event("Connected", id, "Incoming")>>]

handle_accepted(p, id) ==
  [p   |-> [p EXCEPT !.connected = Insert(@, id, "Incoming")],
   out |-> <<Event("Connected", id, "Incoming"), Internal("Upgrade", id, None)>>]

\* handle_connected that asks for the upgrade twice
handle_connected_upgrade_twice(p, id) ==
  [p   |-> [p EXCEPT !.connected = Insert(@, id, "Outgoing")],
   out |-> <<Event("Connected", id, "Outgoing"), Internal("Upgrade", id, None),
             Internal("Upgrade", id, None)>>]

handle_connected(p, id) ==
  [p   |-> [p EXCEPT !.connected = Insert(@, id, "Outgoing")],
   out |-> <<Event("Connected", id, "Outgoing"), Internal("Upgrade", id, None)>>]

\* handle_command without the `upgraded` lookup of the Msg arm
handle_command_ungated(p, c) ==
  [p   |-> p,
   out |-> CASE c.type = "Accept" -> <<Internal("Accept", None, None)>>
             [] c.type = "Connect" -> <<Internal("Connect", None, c.info)>>
             [] c.type = "Disconnect" -> <<Internal("Stop", c.id, None)>>
             [] c.type = "Msg" -> <<Internal("SendMessage", c.id, c.msg)>>]

handle_command(p, c) ==
  [p   |-> p,
   out |-> CASE c.type = "Accept" -> <<Internal("Accept", None, None)>>
             [] c.type = "Connect" -> <<Internal("Connect", None, c.info)>>
             [] c.type = "Disconnect" -> <<Internal("Stop", c.id, None)>>
             [] c.type = "Msg" ->
                  IF c.id \in p.upgraded THEN <<Internal("SendMessage", c.id, c.msg)>>
                  ELSE <<>>]

\* handle_receive that surfaces nothing
handle_receive_silent(p, id, msg) ==
  [p |-> p, out |-> <<>>]

handle_receive(p, id, msg) ==
  [p |-> p, out |-> <<Event("Message", id, msg)>>]

handle_stopped(p, id, report) ==
  [p   |-> [p EXCEPT !.upgraded = @ \ {id}, !.stopped = @ \cup {id}],
   out |-> <<Event("Disconnected", id,
               IF report = None THEN "successfully disconected" ELSE report)>>]

handle_upgraded(p, id) ==
  [p |-> [p EXCEPT !.upgraded = @ \cup {id}], out |-> <<Event("Upgraded", id, None)>>]

handle_upgrade_failed(p, id, err) ==
  [p   |-> [p EXCEPT !.connected = Remove(@, id)],
   out |-> <<Event("UpgradeFailed", id, err)>>]

\* transition: panic marks the todo!() arm of DuplicateConnRejected
transition(p, input) ==
  LET r == CASE input.type = "Accepted" -> handle_accepted(p, input.id)
             [] input.type = "Command" -> handle_command(p, input.arg)
             [] input.type = "Connected" -> handle_connected(p, input.id)
             [] input.type = "DuplicateConnRejected" -> [p |-> p, out |-> <<>>]
             [] input.type = "Receive" -> handle_receive(p, input.id, input.arg)
             [] input.type = "Stopped" -> handle_stopped(p, input.id, input.arg)
             [] input.type = "Upgraded" -> handle_upgraded(p, input.id)
             [] input.type = "UpgradeFailed" ->
                  handle_upgrade_failed(p, input.id, input.arg)
  IN [p |-> r.p, out |-> r.out, panic |-> input.type = "DuplicateConnRejected"]

\* --------------------------------------------------------------- main loop
\* the receiving end of a worker's channel is gone once the worker is
WorkerAlive(w) == pc[w] # "dead"

\* one send of the dispatch loop succeeds iff the receiving end still exists
CanSend(o) ==
  IF o.kind = "Event" THEN handle
  ELSE CASE o.type = "Accept" -> WorkerAlive("accept")
         [] o.type = "Connect" -> WorkerAlive("connect")
         [] o.type = "SendMessage" -> WorkerAlive("message")
         [] o.type = "Stop" -> WorkerAlive("stop")
         [] o.type = "Upgrade" -> WorkerAlive("upgrade")

Push(o, ch) ==
  IF o.kind = "Event"
  THEN [ch EXCEPT !.event_rx = Append(@, [type |-> o.type, id |-> o.id, arg |-> o.arg])]
  ELSE CASE o.type = "Accept" -> [ch EXCEPT !.accept_rx = Append(@, "()")]
         [] o.type = "Connect" -> [ch EXCEPT !.connect_rx = Append(@, o.arg)]
         [] o.type = "SendMessage" ->
              [ch EXCEPT !.msg_rx = Append(@, [id |-> o.id, msg |-> o.arg])]
         [] o.type = "Stop" -> [ch EXCEPT !.stop_rx = Append(@, o.id)]
         [] o.type = "Upgrade" -> [ch EXCEPT !.upgrade_rx = Append(@, o.id)]

\* the `for output in ...` loop: sends in list order, the first failing send
\* panics (unwrap) and leaves the remaining outputs undelivered
RECURSIVE Dispatch(_, _)
Dispatch(outs, ch) ==
  IF outs = <<>> THEN ch
  ELSE IF ~CanSend(Head(outs)) THEN [ch EXCEPT !.ok = FALSE]
  ELSE Dispatch(Tail(outs), Push(Head(outs), ch))

\* the closure of a selector source that fires on a disconnected channel panics
Panic == Input("Panic", None, None)

\* the channel sources of the selector that are ready
SelectorReady ==
  (IF command_rx # <<>> \/ ~handle THEN {"command"} ELSE {})
  \cup (IF input_rx # <<>> \/ (\A w \in Workers : ~WorkerAlive(w))
        THEN {"input"} ELSE {})

\* what the closure of channel source s returns
SelectorInput(s) ==
  CASE s = "command" ->
         IF command_rx # <<>> THEN Input("Command", None, Head(command_rx)) ELSE Panic
    [] s = "input" -> IF input_rx # <<>> THEN Head(input_rx) ELSE Panic

\* what the closure of the receiver of peer id returns: the Disconnected arm
\* is todo!()
PeerInput(id, res) ==
  IF res = "Ok" THEN Input("Receive", id, "msg") ELSE Input("Panic", id, None)

\* bookkeeping: Accept commands processed, messages received from peers,
\* stamps of the Msg commands that reached the state machine while their id
\* was not in `upgraded`, and the peers whose receiver the selector found
\* disconnected
Record(h, input) ==
  CASE input.type = "Receive" -> [h EXCEPT !.recvs = @ + 1]
    [] input.type = "Panic" /\ input.id # None -> [h EXCEPT !.gone = @ \cup {input.id}]
    [] input.type = "Command" /\ input.arg.type = "Accept" ->
         [h EXCEPT !.accepts = @ + 1]
    [] input.type = "Command" /\ input.arg.type = "Msg"
       /\ input.arg.id \notin protocol.upgraded ->
         [h EXCEPT !.late = @ \cup {input.arg.msg.n}]
    [] OTHER -> h

\* main is gone: the workers idle on a drained channel end with it
MainEnds(ch) ==
  [t \in Threads |->
     CASE t = "main" -> "dead"
       [] t = "accept" /\ pc[t] = "recv" /\ ch.accept_rx = <<>> -> "dead"
       [] t = "connect" /\ pc[t] = "recv" /\ ch.connect_rx = <<>> -> "dead"
       [] t = "message" /\ pc[t] = "recv" /\ ch.msg_rx = <<>> -> "dead"
       [] t = "stop" /\ pc[t] = "recv" /\ ch.stop_rx = <<>> -> "dead"
       [] t = "upgrade" /\ pc[t] = "recv" /\ ch.upgrade_rx = <<>> -> "dead"
       [] OTHER -> pc[t]]

\* the channels main sends on
Channels ==
  [event_rx |-> event_rx, accept_rx |-> accept_rx, connect_rx |-> connect_rx,
   msg_rx |-> msg_rx, stop_rx |-> stop_rx, upgrade_rx |-> upgrade_rx, ok |-> TRUE]

\* peers.lock() at the top of the loop body; a poisoned mutex breaks the loop
MainLock ==
  /\ pc["main"] = "lock"
  /\ pc' = IF poisoned.peers THEN MainEnds(Channels) ELSE [pc EXCEPT !["main"] = "wait"]
  /\ UNCHANGED <<command_rx, event_rx, input_rx, accept_rx, connect_rx, msg_rx,
                 stop_rx, upgrade_rx, connected, peers, protocol, local,
                 poisoned, handle, sent, closed, hist>>

\* what main does with what the selector returned: a panic of the closure
\* happens under the peers guard; otherwise the guard is dropped and the input
\* goes through protocol.transition and the dispatch loop
MainTakes(input) ==
  LET t == transition(protocol, input)
      ch == IF t.panic THEN [Channels EXCEPT !.ok = FALSE]
            ELSE Dispatch(t.out, Channels)
  IN IF input.type = "Panic"
     THEN /\ pc' = MainEnds(Channels)
          /\ poisoned' = [poisoned EXCEPT !.peers = TRUE]
          /\ hist' = Record(hist, input)
          /\ UNCHANGED <<event_rx, accept_rx, connect_rx, msg_rx, stop_rx,
                         upgrade_rx, protocol>>
     ELSE /\ protocol' = t.p
          /\ event_rx' = ch.event_rx
          /\ accept_rx' = ch.accept_rx
          /\ connect_rx' = ch.connect_rx
          /\ msg_rx' = ch.msg_rx
          /\ stop_rx' = ch.stop_rx
          /\ upgrade_rx' = ch.upgrade_rx
          /\ pc' = IF ch.ok THEN [pc EXCEPT !["main"] = "lock"] ELSE MainEnds(ch)
          /\ hist' = Record(hist, input)
          /\ UNCHANGED poisoned

\* selector.wait() returns from command_rx or input_rx
MainWait ==
  /\ pc["main"] = "wait"
  /\ \E s \in SelectorReady :
       LET input == SelectorInput(s) IN
         /\ MainTakes(input)
         /\ command_rx' = IF s = "command" /\ input.type # "Panic"
                          THEN Tail(command_rx) ELSE command_rx
         /\ input_rx' = IF s = "input" /\ input.type # "Panic"
                        THEN Tail(input_rx) ELSE input_rx
  /\ UNCHANGED <<connected, peers, local, handle, sent, closed>>

\* selector.wait() returns from the receiver of a peer in the registry: the
\* peer has received a message, or its sending side is gone
MainWaitPeer ==
  /\ pc["main"] = "wait"
  /\ \E id \in DOMAIN peers :
       \E res \in (IF hist.recvs < MaxRecv THEN {"Ok"} ELSE {}) \cup {"Disconnected"} :
         MainTakes(PeerInput(id, res))
  /\ UNCHANGED <<command_rx, input_rx, connected, peers, local, handle, sent,
                 closed>>

\* ----------------------------------------------------------------- workers
\* input_tx.try_send(msg)?: fails, and ends the worker, iff main is gone
TrySend(w, msg, next) ==
  IF pc["main"] = "dead"
  THEN /\ input_rx' = input_rx
       /\ pc' = [pc EXCEPT ![w] = "dead"]
  ELSE /\ input_rx' = Append(input_rx, msg)
       /\ pc' = [pc EXCEPT ![w] = next]

\* the worker ends (returns an error or panics) without sending anything
Die(w) ==
  /\ pc' = [pc EXCEPT ![w] = "dead"]
  /\ input_rx' = input_rx

\* the connected mutex is free (only the upgrade worker keeps it across steps)
ConnectedFree == pc["upgrade"] # "insert"
\* the peers mutex is free (only main keeps it across steps)
PeersFree == pc["main"] # "wait"

\* thread t holds the guard of the mutex between two of its steps
HoldsConnected(t) == t = "upgrade" /\ ~ConnectedFree
HoldsPeers(t) == t = "main" /\ ~PeersFree

\* this step is thread t calling connected.lock()
LocksConnected(t) ==
  CASE t = "accept" -> pc[t] = "reg" /\ pc'[t] # "reg"
    [] t = "connect" -> pc[t] = "reg" /\ pc'[t] # "reg"
    [] t = "upgrade" -> upgrade_rx # <<>> /\ upgrade_rx' = Tail(upgrade_rx)
    [] OTHER -> FALSE

\* this step is thread t calling peers.lock()
LocksPeers(t) ==
  CASE t = "main" -> pc[t] = "lock" /\ pc'[t] # "lock"
    [] t = "message" -> msg_rx # <<>> /\ msg_rx' = Tail(msg_rx)
    [] t = "stop" -> stop_rx # <<>> /\ stop_rx' = Tail(stop_rx)
    [] t = "upgrade" -> pc[t] = "insert" /\ pc'[t] # "insert"
    [] OTHER -> FALSE

\* thread t is blocked in a receive: main in selector.wait(), a worker in the
\* recv() at the top of its loop
WaitsOnChannel(t) ==
  IF t = "main" THEN pc[t] = "wait" ELSE pc[t] = "recv"

\* the accept loop without its accept_rx.recv()
AcceptRecv_unprompted ==
  /\ pc["accept"] = "recv"
  /\ pc' = [pc EXCEPT !["accept"] = "next"]
  /\ UNCHANGED <<command_rx, event_rx, input_rx, accept_rx, connect_rx, msg_rx,
                 stop_rx, upgrade_rx, connected, peers, protocol, local,
                 poisoned, handle, sent, closed, hist>>

\* accept: accept_rx.recv()?
AcceptRecv ==
  /\ pc["accept"] = "recv"
  /\ accept_rx # <<>>
  /\ accept_rx' = Tail(accept_rx)
  /\ pc' = [pc EXCEPT !["accept"] = "next"]
  /\ UNCHANGED <<command_rx, event_rx, input_rx, connect_rx, msg_rx, stop_rx,
                 upgrade_rx, connected, peers, protocol,
                 local, poisoned, handle, sent, closed, hist>>

\* accept: incoming.next() and the derivation of the id.  The stream is the
\* transport's: what it yields is chosen here, "end" for None, "fault" for an
\* Err item and for a key that yields no id (both todo!()).  A stream that
\* yields nothing leaves the worker in this position.
AcceptNext ==
  /\ pc["accept"] = "next"
  /\ hist' = [hist EXCEPT !.pulls = @ + 1]
  /\ \E item \in Ids \cup {"fault", "end"} :
       IF item \in Ids
       THEN /\ pc' = [pc EXCEPT !["accept"] = "reg"]
            /\ local' = [local EXCEPT !["accept"] = item]
       ELSE /\ pc' = [pc EXCEPT !["accept"] = "dead"]
            /\ local' = local
  /\ UNCHANGED <<command_rx, event_rx, input_rx, accept_rx, connect_rx, msg_rx,
                 stop_rx, upgrade_rx, connected, peers, protocol, poisoned,
                 handle, sent, closed>>

\* accept: the critical section on the connection registry and the try_send
AcceptRegister ==
  /\ pc["accept"] = "reg"
  /\ ConnectedFree
  /\ LET id == local["accept"] IN
       IF poisoned.connected
       THEN /\ Die("accept")
            /\ UNCHANGED <<connected, closed>>
       ELSE IF id \notin DOMAIN connected
       THEN /\ connected' = Insert(connected, id, "Incoming")
            /\ closed' = closed
            /\ TrySend("accept", Input("Accepted", id, None), "recv")
       ELSE /\ connected' = connected
            /\ closed' = closed + 1
            /\ \E err \in {None, "close failed"} :
                 TrySend("accept", Input("DuplicateConnRejected", id, err), "recv")
  /\ local' = [local EXCEPT !["accept"] = None]
  /\ UNCHANGED <<command_rx, event_rx, accept_rx, connect_rx, msg_rx, stop_rx,
                 upgrade_rx, peers, protocol, poisoned,
                 handle, sent, hist>>

\* connect: connect_rx.recv()? and endpoint.connect(info); a refused dial
\* (or a key that yields no id) is todo!()
ConnectRecv ==
  /\ pc["connect"] = "recv"
  /\ connect_rx # <<>>
  /\ connect_rx' = Tail(connect_rx)
  /\ IF Head(connect_rx).dial = "refused"
     THEN /\ pc' = [pc EXCEPT !["connect"] = "dead"]
          /\ local' = local
     ELSE /\ pc' = [pc EXCEPT !["connect"] = "reg"]
          /\ local' = [local EXCEPT !["connect"] = Head(connect_rx).id]
  /\ UNCHANGED <<command_rx, event_rx, input_rx, accept_rx, msg_rx, stop_rx,
                 upgrade_rx, connected, peers, protocol,
                 poisoned, handle, sent, closed, hist>>

\* connect: the critical section on the connection registry and the try_send;
\* an occupied entry is todo!() under the guard
ConnectRegister ==
  /\ pc["connect"] = "reg"
  /\ ConnectedFree
  /\ LET id == local["connect"] IN
       IF poisoned.connected
       THEN /\ Die("connect")
            /\ UNCHANGED <<connected, poisoned>>
       ELSE IF id \notin DOMAIN connected
       THEN /\ connected' = Insert(connected, id, "Outgoing")
            /\ poisoned' = poisoned
            /\ TrySend("connect", Input("Connected", id, None), "recv")
       ELSE /\ connected' = connected
            /\ poisoned' = [poisoned EXCEPT !.connected = TRUE]
            /\ Die("connect")
  /\ local' = [local EXCEPT !["connect"] = None]
  /\ UNCHANGED <<command_rx, event_rx, accept_rx, connect_rx, msg_rx, stop_rx,
                 upgrade_rx, peers, protocol, handle,
                 sent, closed, hist>>

\* message: msg_rx.recv()?, peers.lock(), peers.get(&id), peer.send(msg);
\* a missing peer is todo!() under the guard
MessageSend ==
  /\ pc["message"] = "recv"
  /\ msg_rx # <<>>
  /\ PeersFree
  /\ msg_rx' = Tail(msg_rx)
  /\ IF poisoned.peers
     THEN /\ pc' = [pc EXCEPT !["message"] = "dead"]
          /\ UNCHANGED <<sent, poisoned>>
     ELSE IF Head(msg_rx).id \in DOMAIN peers
     THEN /\ sent' = Append(sent, Head(msg_rx))
          /\ pc' = [pc EXCEPT !["message"] =
                      IF pc["main"] = "dead" /\ Tail(msg_rx) = <<>>
                      THEN "dead" ELSE "recv"]
          /\ poisoned' = poisoned
     ELSE /\ pc' = [pc EXCEPT !["message"] = "dead"]
          /\ poisoned' = [poisoned EXCEPT !.peers = TRUE]
          /\ sent' = sent
  /\ UNCHANGED <<command_rx, event_rx, input_rx, accept_rx, connect_rx, stop_rx,
                 upgrade_rx, connected, peers, protocol,
                 local, handle, closed, hist>>

\* stop without the block: peer.stop() and the try_send under the peers guard
StopRemove_stop_under_guard ==
  /\ pc["stop"] = "recv"
  /\ stop_rx # <<>>
  /\ PeersFree
  /\ stop_rx' = Tail(stop_rx)
  /\ IF poisoned.peers \/ Head(stop_rx) \notin DOMAIN peers
     THEN /\ pc' = [pc EXCEPT !["stop"] = "dead"]
          /\ UNCHANGED <<peers, input_rx>>
     ELSE /\ peers' = Remove(peers, Head(stop_rx))
          /\ \E report \in {None, "stop failed"} :
               TrySend("stop", Input("Stopped", Head(stop_rx), report), "recv")
  /\ UNCHANGED <<command_rx, event_rx, accept_rx, connect_rx, msg_rx,
                 upgrade_rx, connected, protocol, local,
                 poisoned, handle, sent, closed, hist>>

\* stop: stop_rx.recv()? and the block that removes the peer under the guard;
\* a missing peer is todo!() after the guard is dropped
StopRemove ==
  /\ pc["stop"] = "recv"
  /\ stop_rx # <<>>
  /\ PeersFree
  /\ stop_rx' = Tail(stop_rx)
  /\ IF poisoned.peers \/ Head(stop_rx) \notin DOMAIN peers
     THEN /\ pc' = [pc EXCEPT !["stop"] = "dead"]
          /\ UNCHANGED <<peers, local>>
     ELSE /\ peers' = Remove(peers, Head(stop_rx))
          /\ local' = [local EXCEPT !["stop"] = Head(stop_rx)]
          /\ pc' = [pc EXCEPT !["stop"] = "stopping"]
  /\ UNCHANGED <<command_rx, event_rx, input_rx, accept_rx, connect_rx, msg_rx,
                 upgrade_rx, connected, protocol,
                 poisoned, handle, sent, closed, hist>>

\* stop: peer.stop() outside the guard and the try_send of Stopped
StopPeer ==
  /\ pc["stop"] = "stopping"
  /\ \E report \in {None, "stop failed"} :
       TrySend("stop", Input("Stopped", local["stop"], report), "recv")
  /\ local' = [local EXCEPT !["stop"] = None]
  /\ UNCHANGED <<command_rx, event_rx, accept_rx, connect_rx, msg_rx, stop_rx,
                 upgrade_rx, connected, peers, protocol,
                 poisoned, handle, sent, closed, hist>>

\* upgrade: upgrade_rx.recv()?, connected.lock(), connected.remove(&peer_id),
\* Peer::try_from(conn) (an error is todo!() under the guard) and peer.run
UpgradeTake ==
  /\ pc["upgrade"] = "recv"
  /\ upgrade_rx # <<>>
  /\ upgrade_rx' = Tail(upgrade_rx)
  /\ LET peer_id == Head(upgrade_rx) IN
       IF poisoned.connected
       THEN /\ Die("upgrade")
            /\ UNCHANGED <<connected, local, poisoned>>
       ELSE IF peer_id \notin DOMAIN connected
       THEN /\ TrySend("upgrade",
                       Input("UpgradeFailed", peer_id, "connection not found"),
                       "recv")
            /\ UNCHANGED <<connected, local, poisoned>>
       ELSE /\ connected' = Remove(connected, peer_id)
            /\ \E outcome \in {"running", "try_from failed", "run failed"} :
                 CASE outcome = "try_from failed" ->
                        /\ Die("upgrade")
                        /\ poisoned' = [poisoned EXCEPT !.connected = TRUE]
                        /\ local' = local
                   [] outcome = "run failed" ->
                        /\ TrySend("upgrade",
                                   Input("UpgradeFailed", peer_id, outcome), "recv")
                        /\ UNCHANGED <<local, poisoned>>
                   [] outcome = "running" ->
                        /\ pc' = [pc EXCEPT !["upgrade"] = "insert"]
                        /\ local' = [local EXCEPT !["upgrade"] = peer_id]
                        /\ UNCHANGED <<input_rx, poisoned>>
  /\ UNCHANGED <<command_rx, event_rx, accept_rx, connect_rx, msg_rx, stop_rx,
                 peers, protocol, handle, sent, closed,
                 hist>>

\* upgrade: peers.lock() while the connected guard is still held, the insert
\* (an occupied entry is todo!() under both guards) and the try_send
UpgradeInsert ==
  /\ pc["upgrade"] = "insert"
  /\ PeersFree
  /\ LET peer_id == local["upgrade"] IN
       IF poisoned.peers
       THEN /\ Die("upgrade")
            /\ UNCHANGED <<peers, poisoned>>
       ELSE IF peer_id \notin DOMAIN peers
       THEN /\ peers' = Insert(peers, peer_id, NewPeer)
            /\ poisoned' = poisoned
            /\ TrySend("upgrade", Input("Upgraded", peer_id, None), "recv")
       ELSE /\ Die("upgrade")
            /\ peers' = peers
            /\ poisoned' = [connected |-> TRUE, peers |-> TRUE]
  /\ local' = [local EXCEPT !["upgrade"] = None]
  /\ UNCHANGED <<command_rx, event_rx, accept_rx, connect_rx, msg_rx, stop_rx,
                 upgrade_rx, connected, protocol, handle,
                 sent, closed, hist>>

\* ------------------------------------------------------------- environment
\* what the caller knows about id when it issues a command
Emitted(t, id) == \E k \in 1..Len(event_rx) : event_rx[k].type = t /\ event_rx[k].id = id

Phase(id) ==
  IF Emitted("Disconnected", id) THEN "after"
  ELSE IF Emitted("Upgraded", id) THEN "running"
  ELSE "before"

\* the commands the caller can issue next; a message carries its serial number
\* and, as a Disconnect does, the phase of its peer at the time it is issued
\* (hist.live keeps the serial numbers of the Msg commands issued for a running
\* peer)
Commands ==
  {Accept}
  \cup {Connect(info) : info \in ConnectInfos}
  \cup {Disconnect(id, Phase(id)) : id \in Ids}
  \cup {Msg(id, [n |-> hist.cmds + 1, phase |-> Phase(id)]) : id \in Ids}

\* command_tx.send on a channel of capacity one
command_bounded(cmd) ==
  IF pc["main"] = "dead" \/ command_rx # <<>>
  THEN [ok |-> FALSE, command_rx |-> command_rx]
  ELSE [ok |-> TRUE, command_rx |-> Append(command_rx, cmd)]

\* Supervisor::command: command_tx.send(cmd) on the unbounded channel whose
\* receiver is owned by the main thread; the send fails iff that receiver is
\* dropped, that is, iff main has returned or panicked
command(cmd) ==
  IF pc["main"] = "dead"
  THEN [ok |-> FALSE, command_rx |-> command_rx]
  ELSE [ok |-> TRUE, command_rx |-> Append(command_rx, cmd)]

\* the caller calls Supervisor::command (hist.errs keeps the serial numbers of
\* the calls that returned an error)
CallerCommand ==
  /\ handle
  /\ hist.cmds < MaxCmds
  /\ \E c \in Commands :
       LET r == command(c) IN
         /\ command_rx' = r.command_rx
         /\ hist' = [hist EXCEPT
                       !.cmds = @ + 1,
                       !.live = IF r.ok /\ c.type = "Msg" /\ c.msg.phase = "running"
                                THEN @ \cup {c.msg.n} ELSE @,
                       !.errs = IF r.ok THEN @ ELSE @ \cup {hist.cmds + 1}]
  /\ UNCHANGED <<event_rx, input_rx, accept_rx, connect_rx, msg_rx, stop_rx,
                 upgrade_rx, connected, peers, protocol, pc, local, poisoned,
                 handle, sent, closed>>

\* the caller drops the Supervisor: command_tx and event_rx go away
CallerDrop ==
  /\ handle
  /\ hist.cmds < MaxCmds
  /\ handle' = FALSE
  /\ hist' = [hist EXCEPT !.cmds = @ + 1]
  /\ UNCHANGED <<command_rx, event_rx, input_rx, accept_rx, connect_rx, msg_rx,
                 stop_rx, upgrade_rx, connected, peers, protocol, pc, local,
                 poisoned, sent, closed>>

\* ----------------------------------------------------------- specification
Next ==
  \/ MainLock
  \/ MainWait
  \/ MainWaitPeer
  \/ AcceptRecv
  \/ AcceptNext
  \/ AcceptRegister
  \/ ConnectRecv
  \/ ConnectRegister
  \/ MessageSend
  \/ StopRemove
  \/ StopPeer
  \/ UpgradeTake
  \/ UpgradeInsert
  \/ CallerCommand
  \/ CallerDrop

Spec == Init /\ [][Next]_vars

\* Every thread of the supervisor that can take a step eventually takes one;
\* nothing is assumed of the caller and of the remotes (MainWaitPeer is a step
\* only when a remote makes it one).
Fairness ==
  /\ WF_vars(MainLock) /\ WF_vars(MainWait)
  /\ WF_vars(AcceptRecv) /\ WF_vars(AcceptNext) /\ WF_vars(AcceptRegister)
  /\ WF_vars(ConnectRecv) /\ WF_vars(ConnectRegister)
  /\ WF_vars(MessageSend)
  /\ WF_vars(StopRemove) /\ WF_vars(StopPeer)
  /\ WF_vars(UpgradeTake) /\ WF_vars(UpgradeInsert)

FairSpec == Spec /\ Fairness

\* ------------------------------------------- the state machine on its own
\* Protocol::transition and the dispatch loop from every state of the state
\* machine: main sits in the selector with one input waiting, a worker result
\* in input_rx or a command in command_rx; the caller may have dropped the
\* handle, one worker may have ended, and a peer may be running.
Directions == {"Incoming", "Outgoing"}

FsmStates ==
  [connected : UNION {[D -> Directions] : D \in SUBSET Ids},
   stopped : SUBSET Ids,
   upgraded : SUBSET Ids]

\* what the workers put on input_rx
WorkerInputs ==
  {Input("Accepted", id, None) : id \in Ids}
  \cup {Input("Connected", id, None) : id \in Ids}
  \cup {Input("DuplicateConnRejected", id, err) :
          id \in Ids, err \in {None, "close failed"}}
  \cup {Input("Stopped", id, report) : id \in Ids, report \in {None, "stop failed"}}
  \cup {Input("Upgraded", id, None) : id \in Ids}
  \cup {Input("UpgradeFailed", id, err) :
          id \in Ids, err \in {"connection not found", "run failed"}}

FsmInit ==
  /\ event_rx = <<>>
  /\ hist = [cmds |-> 0, recvs |-> 0, accepts |-> 0, pulls |-> 0,
             late |-> {}, live |-> {}, gone |-> {}, errs |-> {}]
  /\ protocol \in FsmStates
  /\ handle \in BOOLEAN
  /\ \E D \in {{}} \cup {{w} : w \in Workers} :
       pc = [t \in Threads |->
               IF t = "main" THEN "wait" ELSE IF t \in D THEN "dead" ELSE "recv"]
  /\ \/ command_rx = <<>> /\ input_rx \in {<<i>> : i \in WorkerInputs}
     \/ input_rx = <<>> /\ command_rx \in {<<c>> : c \in Commands}
  /\ accept_rx = <<>>
  /\ connect_rx = <<>>
  /\ msg_rx = <<>>
  /\ stop_rx = <<>>
  /\ upgrade_rx = <<>>
  /\ connected = EmptyMap
  /\ peers \in {EmptyMap} \cup {[i \in {id} |-> NewPeer] : id \in Ids}
  /\ local = [t \in Workers |-> None]
  /\ poisoned = [connected |-> FALSE, peers |-> FALSE]
  /\ sent = <<>>
  /\ closed = 0

FsmNext ==
  \/ MainLock
  \/ MainWait
  \/ MainWaitPeer

FsmSpec == FsmInit /\ [][FsmNext]_vars

\* ------------------------------------------------------------- properties
\* how many events of type t carrying id are in evs
Count(evs, t, id) ==
  Cardinality({k \in 1..Len(evs) : evs[k].type = t /\ evs[k].id = id})

\* this step is main taking a worker result of type t from input_rx
MainTakesInput(t) ==
  /\ pc["main"] = "wait"
  /\ input_rx # <<>> /\ input_rx' = Tail(input_rx)
  /\ Head(input_rx).type = t

\* this step is main taking a command of type t from command_rx
MainTakesCommand(t) ==
  /\ pc["main"] = "wait"
  /\ command_rx # <<>> /\ command_rx' = Tail(command_rx)
  /\ Head(command_rx).type = t

\* this step is main taking a message from the receiver of a peer
MainTakesReceive ==
  pc["main"] = "wait" /\ hist'.recvs = hist.recvs + 1

\* the events main sends in this step
NewEvents == SubSeq(event_rx', Len(event_rx) + 1, Len(event_rx'))

EmitsNow(t, id) ==
  \E k \in 1..Len(NewEvents) : NewEvents[k].type = t /\ NewEvents[k].id = id

\* the position of an id in Connected (Upgraded Message* Disconnected | UpgradeFailed)
LifecycleStep(st, t) ==
  CASE st = "start" /\ t = "Connected" -> "connected"
    [] st = "connected" /\ t = "Upgraded" -> "running"
    [] st = "connected" /\ t = "UpgradeFailed" -> "done"
    [] st = "running" /\ t = "Message" -> "running"
    [] st = "running" /\ t = "Disconnected" -> "done"
    [] OTHER -> "bad"

RECURSIVE Lifecycle(_, _, _)
Lifecycle(evs, id, st) ==
  IF evs = <<>> THEN st
  ELSE Lifecycle(Tail(evs), id,
                 IF Head(evs).id = id THEN LifecycleStep(st, Head(evs).type) ELSE st)

\* C1: for every id, the events sent so far that carry the id form a prefix of
\* Connected, then UpgradeFailed or Upgraded Message* Disconnected.
C1_EventOrder == \A id \in Ids : Lifecycle(event_rx, id, "start") # "bad"

\* C2: the connection registry and the peer registry never hold the same id.
C2_RegistriesDisjoint == DOMAIN connected \cap DOMAIN peers = {}

\* C3: a step of main that sends Upgraded(id) leaves id in the peer registry,
\* and a step that sends Disconnected(id) leaves id out of it.
C3_RegistryAtEvent ==
  [][\A id \in Ids :
       /\ EmitsNow("Upgraded", id) => id \in DOMAIN peers'
       /\ EmitsNow("Disconnected", id) => id \notin DOMAIN peers']_vars

\* C4 as stated: every message handed to peer.send was issued by the caller
\* after Upgraded(id) and before Disconnected(id) had been sent.
C4_OnlyRunningPhaseSent == \A k \in 1..Len(sent) : sent[k].msg.phase = "running"

\* C4 as amended: a Msg that main takes from the command channel while its id
\* is not in the state machine's `upgraded` is never handed to peer.send.
C4_GatedMsgNeverSent == \A k \in 1..Len(sent) : sent[k].msg.n \notin hist.late

\* one Msg reached the state machine outside `upgraded`, another one was sent
C4_Witness == hist.late # {} /\ sent # <<>>

\* C5: the accept worker has called incoming.next() at most as often as main
\* has processed Command::Accept (never, when there was none).
C5_PullsWithinAccepts == hist.pulls <= hist.accepts

\* the accept worker pulled once for each of two Accept commands
C5_Witness == hist.pulls = 2 /\ hist.accepts = 2

\* C6: no id is in both `upgraded` and `stopped` of the state machine.
C6_UpgradedStoppedDisjoint == protocol.upgraded \cap protocol.stopped = {}

\* C7: every id in the state machine's `upgraded` is in the peer registry.
C7_UpgradedInPeers == protocol.upgraded \subseteq DOMAIN peers

\* C8: every id in the state machine's `connected` is in the connection registry.
C8_FsmConnectedInRegistry == DOMAIN protocol.connected \subseteq DOMAIN connected

\* no selector closure has panicked (no receiver of a peer was found
\* disconnected, the caller still holds the handle)
NoSelectorPanic == ~poisoned.peers

\* C9: once the accept worker holds the connection of A for the caller's only
\* command, an Accept, Upgraded(A) is eventually sent, unless the caller issues
\* something more, the upgrade fails, or a peer receives or goes away.
C9_HappyAcceptUpgrades ==
  (hist.cmds = 1 /\ pc["accept"] = "reg" /\ local["accept"] = "A")
    ~> \/ Emitted("Upgraded", "A")
       \/ hist.cmds > 1
       \/ Emitted("UpgradeFailed", "A") \/ poisoned.connected
       \/ hist.recvs > 0 \/ ~NoSelectorPanic

\* C10: a Msg to A issued as the caller's second command, after Upgraded(A), is
\* eventually handed to peer.send, unless the caller issues something more or
\* the peer goes away.
C10_MsgDelivered ==
  (hist.cmds = 2 /\ 2 \in hist.live)
    ~> \/ \E k \in 1..Len(sent) : sent[k].msg.n = 2
       \/ hist.cmds > 2
       \/ ~NoSelectorPanic

\* C11: a Disconnect(A) issued as the caller's second command, after
\* Upgraded(A), eventually leads to the peer being out of the peer registry and
\* Disconnected(A) being sent, unless the caller issues something more or the
\* peer goes away by itself.
C11_DisconnectCompletes ==
  (hist.cmds = 2 /\ command_rx = <<Disconnect("A", "running")>>)
    ~> \/ Emitted("Disconnected", "A") /\ "A" \notin DOMAIN peers
       \/ hist.cmds > 2
       \/ ~NoSelectorPanic

\* C12: when the caller's second and third commands are both Disconnect(A),
\* issued after Upgraded(A) and before any Disconnected(A) was sent, then
\* eventually there is one Disconnected(A) on the event channel and there is
\* never a second one, unless the caller issues something more or the peer
\* goes away by itself.
C12_ExactlyOneDisconnected ==
  (/\ hist.cmds = 3
   /\ command_rx = <<Disconnect("A", "running"), Disconnect("A", "running")>>)
    ~> \/ [](Count(event_rx, "Disconnected", "A") = 1)
       \/ hist.cmds > 3
       \/ ~NoSelectorPanic

\* this step appends to input_rx a duplicate rejection or an UpgradeFailed of id
ReportsRejection(id) ==
  /\ Len(input_rx') = Len(input_rx) + 1
  /\ input_rx'[Len(input_rx')].type \in {"DuplicateConnRejected", "UpgradeFailed"}
  /\ input_rx'[Len(input_rx')].id = id

\* C13: while main runs, the step of the connect worker that finds the dialed
\* id in the connection registry, and the step of the upgrade worker that finds
\* the id of an outgoing connection in the peer registry, keep both registries
\* as they are, put a duplicate rejection or an UpgradeFailed of the id on
\* input_rx, and leave the worker and main running.
C13_DuplicateConnectRejected ==
  [][/\ (/\ pc["connect"] = "reg" /\ pc'["connect"] # "reg"
          /\ local["connect"] \in DOMAIN connected
          /\ ~poisoned.connected /\ pc["main"] # "dead")
          => /\ connected' = connected /\ peers' = peers
             /\ ReportsRejection(local["connect"])
             /\ pc'["connect"] # "dead" /\ pc'["main"] # "dead"
     /\ (/\ pc["upgrade"] = "insert" /\ pc'["upgrade"] # "insert"
          /\ local["upgrade"] \in DOMAIN peers
          /\ protocol.connected[local["upgrade"]] = "Outgoing"
          /\ ~poisoned.peers /\ pc["main"] # "dead")
          => /\ connected' = connected /\ peers' = peers
             /\ ReportsRejection(local["upgrade"])
             /\ pc'["upgrade"] # "dead" /\ pc'["main"] # "dead"]_vars

\* an upgrade has failed: the worker has reported it or panicked under the guard
UpgradeHasFailed ==
  \/ \E k \in 1..Len(input_rx) : input_rx[k].type = "UpgradeFailed"
  \/ \E id \in Ids : Emitted("UpgradeFailed", id)
  \/ poisoned.connected

\* C14: when the caller has issued two commands, main has processed two
\* Accepts and no upgrade has failed, no step leaves more than one Connected(A)
\* or more than one Upgraded(A) on the event channel, and the step in which the
\* accept worker registers the connection of its second pull calls close on it.
C14_DuplicateInbound ==
  [][(hist.cmds = 2 /\ hist.accepts = 2 /\ hist'.cmds = 2 /\ ~UpgradeHasFailed)
       => /\ Count(event_rx', "Connected", "A") <= 1
          /\ Count(event_rx', "Upgraded", "A") <= 1
          /\ (pc["accept"] = "reg" /\ pc'["accept"] # "reg" /\ hist.pulls = 2)
              => closed' = closed + 1]_vars

\* C15: while main runs, the step in which the upgrade worker takes the id of
\* a registered connection, an id with no running peer, and does not come out
\* with a running peer puts
\* UpgradeFailed(id) on input_rx and leaves the id out of both registries; the
\* step in which main takes UpgradeFailed(id) sends the event and leaves the id
\* out of the state machine's `connected`; and when the caller's only command
\* was an Accept, the events are then Connected(A, Incoming), UpgradeFailed(A).
C15_UpgradeFailureReported ==
  [][/\ (/\ pc["upgrade"] = "recv" /\ pc'["upgrade"] # "insert"
          /\ upgrade_rx # <<>> /\ upgrade_rx' = Tail(upgrade_rx)
          /\ Head(upgrade_rx) \in DOMAIN connected \ DOMAIN peers
          /\ ~poisoned.connected /\ pc["main"] # "dead")
          => /\ Len(input_rx') = Len(input_rx) + 1
             /\ input_rx'[Len(input_rx')].type = "UpgradeFailed"
             /\ input_rx'[Len(input_rx')].id = Head(upgrade_rx)
             /\ Head(upgrade_rx) \notin DOMAIN connected' \cup DOMAIN peers'
     /\ (/\ pc["main"] = "wait" /\ handle
          /\ input_rx # <<>> /\ input_rx' = Tail(input_rx)
          /\ Head(input_rx).type = "UpgradeFailed")
          => /\ EmitsNow("UpgradeFailed", Head(input_rx).id)
             /\ Head(input_rx).id \notin DOMAIN protocol'.connected
             /\ (hist.cmds = 1 /\ hist.accepts = 1)
                 => /\ Len(event_rx') = 2
                    /\ event_rx'[1] = [type |-> "Connected", id |-> "A",
                                        arg |-> "Incoming"]
                    /\ event_rx'[2].type = "UpgradeFailed"]_vars

\* C16: once the selector has found the receiver of the running peer A
\* disconnected, eventually Disconnected(A) has been sent, A is out of the peer
\* registry and out of the state machine's `upgraded`, and main still runs.
C16_PeerDeathSurfaced ==
  ("A" \in hist.gone)
    ~> /\ Emitted("Disconnected", "A")
       /\ "A" \notin DOMAIN peers
       /\ "A" \notin protocol.upgraded
       /\ pc["main"] # "dead"

\* C17: after the caller has dropped the handle, the step in which main leaves
\* selector.wait() for good because the command channel is closed (a closure
\* of the selector fails, no peer has gone away, no command is left) finds no
\* worker result waiting in input_rx.
C17_DrainsBeforeExit ==
  [][(/\ ~handle /\ command_rx = <<>>
      /\ pc["main"] = "wait" /\ pc'["main"] = "dead"
      /\ ~poisoned.peers /\ poisoned'.peers /\ hist'.gone = hist.gone)
       => input_rx = <<>>]_vars

\* C18: a call of command made while main runs appends its command to the
\* command channel and returns no error (so a call returns an error only when
\* main has returned or panicked).
C18_CommandFailsOnlyAfterMain ==
  [][(handle /\ handle' /\ hist'.cmds = hist.cmds + 1 /\ pc["main"] # "dead")
       => /\ hist'.errs = hist.errs
          /\ \E c \in Commands : command_rx' = Append(command_rx, c)]_vars

\* the caller's first command was accepted and a later one returned an error
C18_Witness == hist.errs # {} /\ 1 \notin hist.errs

\* C19: no thread calls peers.lock() while it holds the connected guard, and
\* none calls connected.lock() while it holds the peers guard.
C19_OneRegistryLockAtATime ==
  [][\A t \in Threads :
       /\ LocksPeers(t) => ~HoldsConnected(t)
       /\ LocksConnected(t) => ~HoldsPeers(t)]_vars

\* C20: no thread is blocked in a receive on a channel while it holds the
\* guard of a registry mutex.
C20_NoWaitUnderLock ==
  \A t \in Threads : WaitsOnChannel(t) => ~HoldsConnected(t) /\ ~HoldsPeers(t)

\* C21: once either registry mutex is poisoned, main eventually ends.
C21_PoisonEndsMain ==
  (poisoned.connected \/ poisoned.peers) ~> pc["main"] = "dead"

\* the step takes `input` of a connection of direction dir as C22 says
RegistersConnection(input, dir) ==
  /\ protocol' = [protocol EXCEPT !.connected = Insert(@, input.id, dir)]
  /\ event_rx' = IF handle
                 THEN Append(event_rx, [type |-> "Connected", id |-> input.id,
                                        arg |-> dir])
                 ELSE event_rx
  /\ upgrade_rx' = IF handle /\ WorkerAlive("upgrade")
                   THEN Append(upgrade_rx, input.id) ELSE upgrade_rx
  /\ UNCHANGED <<accept_rx, connect_rx, msg_rx, stop_rx>>

\* C22: from every state of the state machine, the step in which main takes
\* Accepted(id) sets connected[id] to Incoming, leaves `upgraded` and
\* `stopped` alone, sends Connected(id, Incoming) and then hands id to the
\* upgrade worker (the event is sent also when the hand-over fails, and
\* nothing is handed over when the event cannot be sent); the step that takes
\* Connected(id) does the same with Outgoing.
C22_ConnectionRegistered ==
  [][/\ MainTakesInput("Accepted") => RegistersConnection(Head(input_rx), "Incoming")
     /\ MainTakesInput("Connected") => RegistersConnection(Head(input_rx), "Outgoing")]_vars

\* Accepted(A) was taken in a state that had A upgraded and stopped; the event
\* was sent and the upgrade worker, which has ended, was handed nothing
C22_Witness ==
  /\ event_rx = <<[type |-> "Connected", id |-> "A", arg |-> "Incoming"]>>
  /\ "A" \in DOMAIN protocol.connected /\ protocol.connected["A"] = "Incoming"
  /\ protocol.upgraded = {"A"} /\ protocol.stopped = {"A"}
  /\ pc["upgrade"] = "dead" /\ upgrade_rx = <<>>

\* C23: from every state of the state machine, the step in which main takes a
\* command or a message of a peer leaves the state machine as it is and sends
\* exactly one thing: () to the accept worker for Accept, the info to the
\* connect worker for Connect, the id to the stop worker for Disconnect, the
\* event Message(id, m) for a received message, and for Msg(id, m) the pair
\* (id, m) to the message worker if id is in `upgraded` and nothing otherwise
\* (a send to an ended worker or to a dropped handle sends nothing).
C23_CommandsAndReceiveFrame ==
  [][/\ MainTakesCommand("Accept")
          => /\ protocol' = protocol
             /\ accept_rx' = IF WorkerAlive("accept")
                             THEN Append(accept_rx, "()") ELSE accept_rx
             /\ UNCHANGED <<event_rx, connect_rx, msg_rx, stop_rx, upgrade_rx>>
     /\ MainTakesCommand("Connect")
          => /\ protocol' = protocol
             /\ connect_rx' = IF WorkerAlive("connect")
                              THEN Append(connect_rx, Head(command_rx).info)
                              ELSE connect_rx
             /\ UNCHANGED <<event_rx, accept_rx, msg_rx, stop_rx, upgrade_rx>>
     /\ MainTakesCommand("Disconnect")
          => /\ protocol' = protocol
             /\ stop_rx' = IF WorkerAlive("stop")
                           THEN Append(stop_rx, Head(command_rx).id) ELSE stop_rx
             /\ UNCHANGED <<event_rx, accept_rx, connect_rx, msg_rx, upgrade_rx>>
     /\ MainTakesCommand("Msg")
          => /\ protocol' = protocol
             /\ msg_rx' = IF Head(command_rx).id \in protocol.upgraded
                             /\ WorkerAlive("message")
                          THEN Append(msg_rx, [id |-> Head(command_rx).id,
                                               msg |-> Head(command_rx).msg])
                          ELSE msg_rx
             /\ UNCHANGED <<event_rx, accept_rx, connect_rx, stop_rx, upgrade_rx>>
     /\ MainTakesReceive
          => /\ protocol' = protocol
             /\ \E id \in DOMAIN peers :
                  event_rx' = IF handle
                              THEN Append(event_rx, [type |-> "Message", id |-> id,
                                                     arg |-> "msg"])
                              ELSE event_rx
             /\ UNCHANGED <<accept_rx, connect_rx, msg_rx, stop_rx,
                            upgrade_rx>>]_vars

\* a Msg for the upgraded A was handed to the message worker and a message
\* received from A was surfaced
C23_Witness ==
  /\ Len(msg_rx) = 1 /\ msg_rx[1].id = "A" /\ "A" \in protocol.upgraded
  /\ Emitted("Message", "A")

\* C24: the step in which main takes DuplicateConnRejected(id, _) changes
\* nothing in the state machine, sends no event and no job to a worker, and
\* leaves main running, back at the top of its loop.
C24_DuplicateRejectionAbsorbed ==
  [][MainTakesInput("DuplicateConnRejected")
       => /\ protocol' = protocol
          /\ UNCHANGED <<event_rx, accept_rx, connect_rx, msg_rx, stop_rx,
                         upgrade_rx>>
          /\ pc'["main"] = "lock"]_vars

\* C25: in the step in which the message worker takes (id, m) from msg_rx and
\* gets the peers mutex, the peer registry has a peer for id.
C25_SendFindsPeer ==
  [][(LocksPeers("message") /\ ~poisoned.peers)
       => Head(msg_rx).id \in DOMAIN peers]_vars

\* C26: every Message(id, _) on the event channel has an Upgraded(id) before it.
C26_NoMessageBeforeUpgraded ==
  \A k \in 1..Len(event_rx) :
    event_rx[k].type = "Message"
      => \E j \in 1..(k - 1) :
           event_rx[j].type = "Upgraded" /\ event_rx[j].id = event_rx[k].id

\* C27: the step in which the stop worker takes the peers mutex and finds its
\* peer removes the peer and sends nothing, leaving the worker with the peer
\* in hand; and a Stopped(id, _) is put on input_rx only
\* by a later step of the stop worker that does not take the peers mutex and
\* does not touch the registry, for the id the worker removed.
C27_StopOutsideLock ==
  [][/\ (/\ LocksPeers("stop") /\ ~poisoned.peers
          /\ Head(stop_rx) \in DOMAIN peers)
          => /\ peers' = Remove(peers, Head(stop_rx))
             /\ input_rx' = input_rx
             /\ pc'["stop"] = "stopping" /\ local'["stop"] = Head(stop_rx)
     /\ (/\ Len(input_rx') = Len(input_rx) + 1
          /\ input_rx'[Len(input_rx')].type = "Stopped")
          => /\ pc["stop"] = "stopping" /\ ~LocksPeers("stop")
             /\ input_rx'[Len(input_rx')].id = local["stop"]
             /\ peers' = peers]_vars

\* Stopped(A) was sent by the stop worker while main held the peers mutex in
\* the selector, with A out of the registry
C27_Witness ==
  /\ pc["main"] = "wait"
  /\ input_rx # <<>> /\ input_rx[Len(input_rx)].type = "Stopped"
  /\ input_rx[Len(input_rx)].id \notin DOMAIN peers

\* C28: no id is both in `connected` and in `upgraded` of the state machine.
C28_ConnectedNotUpgraded ==
  DOMAIN protocol.connected \cap protocol.upgraded = {}

\* C29: in the step in which the upgrade worker takes an id from upgrade_rx
\* and gets the connected mutex, the connection registry has an entry for the
\* id (the `connection not found` branch is not taken).
C29_UpgradeFindsConnection ==
  [][(LocksConnected("upgrade") /\ ~poisoned.connected)
       => Head(upgrade_rx) \in DOMAIN connected]_vars

\* the upgrade worker has taken the second connection of A from the registry
C29_Witness ==
  /\ Count(event_rx, "Connected", "A") = 2
  /\ pc["upgrade"] = "insert" /\ local["upgrade"] = "A"
  /\ upgrade_rx = <<>>

\* C30: once the accept worker has ended at incoming.next() (the connected
\* mutex is not poisoned), the step in which main takes an Accept command
\* leaves main running, back at the top of its loop.
C30_AcceptAfterStreamEnd ==
  [][(MainTakesCommand("Accept") /\ pc["accept"] = "dead" /\ ~poisoned.connected)
       => pc'["main"] = "lock"]_vars

=============================================================================
